---- MODULE Spec2Model ----
(***************************************************************************)
(* Model of the mix-scheduler admission webhook.                            *)
(*                                                                           *)
(* The repository holds two generations of the request handler:             *)
(*   - pkg/webhook/server/app.go: Deployment/StatefulSet admission with     *)
(*     weight resolution (instance labels, namespace labels, defaults);     *)
(*   - pkg/webhook/server/server.go: the handler that also admits bare      *)
(*     pods (create: OnDemand floor, delete: veto) and reads the cluster    *)
(*     through the informer cache or directly.                              *)
(* SpecApp runs the first, SpecServer the second.                           *)
(*                                                                           *)
(* Strings that the code parses or compares (label values, environment      *)
(* values) are sequences of one-character strings, so that strconv.Atoi is  *)
(* modelled by what it does.                                                 *)
(***************************************************************************)
EXTENDS Integers, Sequences, FiniteSets, TLC

VARIABLES
    app,        \* the App struct built by StartServer / NewDefaultApp
    synced,     \* SingleClusterManager.synced
    informer,   \* the goroutine of SingleClusterManager.StartInformer, stopCh
    apiserver,  \* the orchestrator's objects: namespaces, nodes, pods
    cache,      \* the informer listers' stores
    req,        \* the admission request being handled (Idle when idle)
    resp,       \* the response written for req (Idle when idle)
    pc          \* "idle" | "isSynced" | "readCache" | "readDirect" | "done"

vars == <<app, synced, informer, apiserver, cache, req, resp, pc>>

Nil == "nil"

\* no request is being handled
Idle == [idle |-> TRUE]

\* the informer goroutine: "spawned" by App.StartInformer, "waiting" in
\* WaitForCacheSync with syncRWMutex write-locked, "returned" from
\* StartInformer; stopCh: App.stopCh; hasSynced: the informers of all three
\* kinds have completed their initial list
InformerState(goroutine, stopCh, hasSynced) ==
    [goroutine |-> goroutine, stopCh |-> stopCh, hasSynced |-> hasSynced]

-----------------------------------------------------------------------------
(* Bounds of the model *)

\* the most labels a workload and its namespace carry together
MaxLabels == 2
\* the most pods in the cluster
MaxPods == 2
\* most anti-affinity terms an affinity grows to under repeated application
MaxTerms == 4

-----------------------------------------------------------------------------
(* Constants of the program *)

capacityKey == "node.kubernetes.io/capacity"
ondemandKey == "on-demand"
spotKey == "spot"
spotWeithtKey == "spot/weight"
ondemandWeithtKey == "on-demand/weight"
mixSchedulerKey == "mix-scheduler-admission-webhook"
hostnameKey == "kubernetes.io/hostname"

DefaultSpotWeight == 10
DefaultOndemandWeight == 1
DefaultOnDemandMinPodNum == 1
DefaultSpotMinPodNum == 1
AntiAffinityWeightApp == 1
AntiAffinityWeightServer == 100
StatusBadRequest == 400
StatusOK == 200

DefaultNotControllerNamespace == {"kube-system", "mix-scheduler-system"}

-----------------------------------------------------------------------------
(* Strings as character sequences *)

S_true == <<"t", "r", "u", "e">>
S_false == <<"f", "a", "l", "s", "e">>
S_yes == <<"y", "e", "s">>
S_empty == <<>>

-----------------------------------------------------------------------------
(* strconv.Atoi on a 64-bit platform, and the int -> int32 conversion.       *)
(* A magnitude is four 16-bit limbs, least significant first.               *)

Limb == 256 * 256
HalfLimb == 128 * 256

DigitVal(c) ==
    CASE c = "0" -> 0 [] c = "1" -> 1 [] c = "2" -> 2 [] c = "3" -> 3
      [] c = "4" -> 4 [] c = "5" -> 5 [] c = "6" -> 6 [] c = "7" -> 7
      [] c = "8" -> 8 [] c = "9" -> 9 [] OTHER -> -1

ZeroMag == <<0, 0, 0, 0>>

\* m * 10 + d, with the carry out of the 64 bits
MulAdd10(m, d) ==
    LET t1 == m[1] * 10 + d
        t2 == m[2] * 10 + (t1 \div Limb)
        t3 == m[3] * 10 + (t2 \div Limb)
        t4 == m[4] * 10 + (t3 \div Limb)
    IN  [mag |-> <<t1 % Limb, t2 % Limb, t3 % Limb, t4 % Limb>>,
         carry |-> t4 \div Limb]

RECURSIVE ParseDigits(_, _, _)
\* the digits s[i..], accumulated onto acc; ok = FALSE on a non-digit or on
\* a value that does not fit 64 bits
ParseDigits(s, i, acc) ==
    IF i > Len(s) THEN [ok |-> TRUE, mag |-> acc]
    ELSE IF DigitVal(s[i]) < 0 THEN [ok |-> FALSE, mag |-> acc]
    ELSE LET n == MulAdd10(acc, DigitVal(s[i]))
         IN  IF n.carry > 0 THEN [ok |-> FALSE, mag |-> acc]
             ELSE ParseDigits(s, i + 1, n.mag)

\* strconv.Atoi: optional sign, at least one digit, digits only, int64 range
Atoi(s) ==
    IF Len(s) = 0 THEN [err |-> TRUE, neg |-> FALSE, mag |-> ZeroMag]
    ELSE
      LET signed == s[1] \in {"-", "+"}
          neg == s[1] = "-"
          first == IF signed THEN 2 ELSE 1
          p == ParseDigits(s, first, ZeroMag)
          tooBig ==
              IF neg
              THEN \/ p.mag[4] > HalfLimb
                   \/ p.mag[4] = HalfLimb /\ (p.mag[1] + p.mag[2] + p.mag[3] > 0)
              ELSE p.mag[4] >= HalfLimb
      IN  IF first > Len(s) \/ ~p.ok \/ tooBig
          THEN [err |-> TRUE, neg |-> FALSE, mag |-> ZeroMag]
          ELSE [err |-> FALSE, neg |-> neg, mag |-> p.mag]

\* n < 0 for a parsed int
IsNegative(n) == n.neg /\ n.mag # ZeroMag

\* int32(n): the low 32 bits, read as a signed number
ToInt32(n) ==
    LET lo == n.mag[1]
        hi == n.mag[2]
    IN  IF ~n.neg
        THEN IF hi >= HalfLimb THEN (hi - Limb) * Limb + lo ELSE hi * Limb + lo
        ELSE IF hi = 0 /\ lo = 0 THEN 0
        ELSE IF hi < HalfLimb \/ (hi = HalfLimb /\ lo = 0)
             THEN (0 - hi) * Limb - lo
             ELSE (Limb - hi - 1) * Limb + (Limb - lo)

-----------------------------------------------------------------------------
(* Labels, label values and the objects of a request *)

W_5 == <<"5">>
W_7 == <<"7">>
W_neg == <<"-", "1">>
W_bad == <<"x">>
W_big == <<"2", "1", "4", "7", "4", "8", "3", "6", "4", "8">>

SwitchValues == {S_empty, S_true, S_false, S_yes}
WeightValues == {W_5, W_7, W_neg, W_bad, W_big}
AppNames == {<<"a">>, <<"b">>}

LabelValues(k) ==
    IF k = mixSchedulerKey THEN SwitchValues
    ELSE IF k \in {spotWeithtKey, ondemandWeithtKey} THEN WeightValues
    ELSE AppNames

\* the label maps over the keys K that carry at most n labels
LabelMaps(K, n) ==
    UNION { { f \in [D -> UNION {LabelValues(k) : k \in D}] :
                \A k \in D : f[k] \in LabelValues(k) } :
            D \in {D \in SUBSET K : Cardinality(D) <= n} }

NoLabels == [k \in {} |-> S_empty]

NumLabels(labels) == Cardinality(DOMAIN labels)

-----------------------------------------------------------------------------
(* Responses (part_005: HandleError, jsonError, writeNil, jsonOk) *)

\* HandleError -> jsonError: status 400 and the body {"err": msg}; the body is
\* not an AdmissionReview and carries no UID.
HandleError(msg, reads) ==
    [envelope |-> "jsonErr", code |-> StatusBadRequest, uid |-> Nil,
     allowed |-> FALSE, patch |-> <<>>, err |-> msg, reads |-> reads]

\* writeNil: an AdmissionReview with the request's UID, allowed, no patch
writeNil(r, reads) ==
    [envelope |-> "AdmissionReview", code |-> StatusOK, uid |-> r.uid,
     allowed |-> TRUE, patch |-> <<>>, err |-> "", reads |-> reads]

\* jsonOk of the AdmissionReview built at the end of HandleMutate
jsonOk(r, patch, reads) ==
    [envelope |-> "AdmissionReview", code |-> StatusOK, uid |-> r.uid,
     allowed |-> TRUE, patch |-> patch, err |-> "", reads |-> reads]

\* a nil-interface method call panics; net/http recovers the panic and closes
\* the connection without writing a response
Panic(reads) ==
    [envelope |-> "none", code |-> 0, uid |-> Nil,
     allowed |-> FALSE, patch |-> <<>>, err |-> "panic", reads |-> reads]

JSONPatchEntry(path, value) == [op |-> "replace", path |-> path, value |-> value]

Rejected(r) == r.envelope = "jsonErr"
AllowedNoPatch(r) == r.envelope = "AdmissionReview" /\ r.allowed /\ r.patch = <<>>
AllowedWithPatch(r) == r.envelope = "AdmissionReview" /\ r.allowed /\ r.patch # <<>>

-----------------------------------------------------------------------------
(* Policy resolution shared by app.go and server.go *)

\* mutant: no namespace is excluded
isControllerNamespace_Always(a, namespace) == TRUE

\* _, ok := app.notControllerNamespace[namespace]; return !ok
isControllerNamespace(a, namespace) == namespace \notin a.notControllerNamespace

\* mutant: only the canonical "false" disables, any other value is unset
SwitchLabelSkips_OnlyFalse(labels) ==
    /\ mixSchedulerKey \in DOMAIN labels
    /\ labels[mixSchedulerKey] = S_false

\* val, ok := labels[mixSchedulerKey]; ok && val != "" && val != "true"
SwitchLabelSkips(labels) ==
    /\ mixSchedulerKey \in DOMAIN labels
    /\ labels[mixSchedulerKey] # S_empty
    /\ labels[mixSchedulerKey] # S_true

instanceIsSkip(a, namespace, labels) ==
    IF ~isControllerNamespace(a, namespace) THEN TRUE
    ELSE IF SwitchLabelSkips(labels) THEN TRUE
    ELSE IF ~a.mixSchedulerRequierd THEN TRUE
    ELSE FALSE

-----------------------------------------------------------------------------
(* Affinity values.  A Go pointer or slice that may be nil is NilV or a      *)
(* record with nil = FALSE.                                                  *)

NilV == [nil |-> TRUE]
Slice(items) == [nil |-> FALSE, items |-> items]
NodeAffinityOf(required, preferred) ==
    [nil |-> FALSE, Required |-> required, Preferred |-> preferred]
PodAntiAffinityOf(required, preferred) ==
    [nil |-> FALSE, Required |-> required, Preferred |-> preferred]
AffinityOf(na, paa) ==
    [nil |-> FALSE, NodeAffinity |-> na, PodAntiAffinity |-> paa]

\* corev1.PreferredSchedulingTerm{Weight, Preference: capacityKey In [class]}
PreferredSchedulingTerm(weight, class) ==
    [Weight |-> weight, Key |-> capacityKey, Operator |-> "In", Values |-> <<class>>]

\* mutant: the anti-affinity term selects nothing
WeightedPodAffinityTerm_NoSelector(weight, selector) ==
    [Weight |-> weight, TopologyKey |-> hostnameKey, LabelSelector |-> NilV]

\* corev1.WeightedPodAffinityTerm{Weight, TopologyKey, LabelSelector}
WeightedPodAffinityTerm(weight, selector) ==
    [Weight |-> weight, TopologyKey |-> hostnameKey, LabelSelector |-> selector]

\* a list that is nil becomes the empty list
\* mutant: the list is replaced by an empty one whether or not it was nil
FillList_Resets(block) == [block EXCEPT !.Preferred = Slice(<<>>)]

FillList(block) ==
    IF block.Preferred.nil THEN [block EXCEPT !.Preferred = Slice(<<>>)] ELSE block

\* a block that is nil becomes a block with an empty list
FillBlock(block) ==
    IF block.nil
    THEN [nil |-> FALSE, Required |-> NilV, Preferred |-> Slice(<<>>)]
    ELSE FillList(block)

\* app.go FillAffinity: every missing block and list becomes an empty one
FillAffinity(podSpecAffinity) ==
    IF podSpecAffinity.nil
    THEN AffinityOf(NodeAffinityOf(NilV, Slice(<<>>)),
                    PodAntiAffinityOf(NilV, Slice(<<>>)))
    ELSE [podSpecAffinity EXCEPT
            !.NodeAffinity = FillBlock(@),
            !.PodAntiAffinity = FillBlock(@)]

-----------------------------------------------------------------------------
(* app.go: weight resolution (HandleMutate, lines 197-260) *)

\* the strings the model hands to strconv.Atoi, parsed once
E_neg5 == <<"-", "5">>
E_20 == <<"2", "0">>
ParsedStrings == {W_5, W_7, W_neg, W_bad, W_big, E_neg5, E_20, S_empty}
AtoiTable == [s \in ParsedStrings |-> Atoi(s)]

\* the body of one "if val, ok := labels[key]; ok {...}" block, n the result
\* of strconv.Atoi(val): parse error, "must >= 0", or int32(n)
WeightFromParsed(n, name) ==
    IF n.err
    THEN [set |-> FALSE, err |-> "parse " \o name \o " weight", weight |-> 0]
    ELSE IF IsNegative(n)
    THEN [set |-> FALSE, err |-> name \o " weight must >= 0", weight |-> 0]
    ELSE [set |-> TRUE, err |-> "", weight |-> ToInt32(n)]

ParseWeightLabel(labels, key, name) ==
    IF key \notin DOMAIN labels
    THEN [set |-> FALSE, err |-> "", weight |-> 0]
    ELSE WeightFromParsed(AtoiTable[labels[key]], name)

\* whether the namespace labels are consulted: only when the instance set
\* neither weight (instanceIsSet)
ConsultNamespaceWeights(instanceIsSet) == ~instanceIsSet

WeightError(msg) == [err |-> msg, spotWeitht |-> 0, ondemandWeitht |-> 0]

\* lines 197-260 on the four parsed labels: is, io of the instance and
\* ns, no of the namespace
ResolveParsed(a, is, io, ns, no) ==
    IF is.err # "" THEN WeightError(is.err)
    ELSE IF io.err # "" THEN WeightError(io.err)
    ELSE IF ~ConsultNamespaceWeights(is.set \/ io.set)
    THEN [err |-> "",
          spotWeitht |-> IF is.set THEN is.weight ELSE a.SpotWeight,
          ondemandWeitht |-> IF io.set THEN io.weight ELSE a.OndemandWeight]
    ELSE IF ns.err # "" THEN WeightError(ns.err)
    ELSE IF no.err # "" THEN WeightError(no.err)
    ELSE [err |-> "",
          spotWeitht |-> IF ns.set THEN ns.weight ELSE a.SpotWeight,
          ondemandWeitht |-> IF no.set THEN no.weight ELSE a.OndemandWeight]

\* the weights of the two node-affinity preferences, or the error that ends
\* the request
ResolveWeights(a, instanceLabels, namespaceLabels) ==
    ResolveParsed(a,
        ParseWeightLabel(instanceLabels, spotWeithtKey, "spot"),
        ParseWeightLabel(instanceLabels, ondemandWeithtKey, "on-demand"),
        ParseWeightLabel(namespaceLabels, spotWeithtKey, "spot"),
        ParseWeightLabel(namespaceLabels, ondemandWeithtKey, "on-demand"))

-----------------------------------------------------------------------------
(* The orchestrator's API as the handlers see it *)

Namespaces == {"default", "kube-system"}
Kinds == {"Deployment", "StatefulSet", "Pod", "Service"}
Operations == {"CREATE", "UPDATE", "DELETE"}
UIDs == {"uid-1", "uid-2"}

\* one read of the cluster, as recorded in the response's trace
Read(op, mode, ok) == [op |-> op, mode |-> mode, ok |-> ok]

\* Client.CoreV1().Namespaces().Get: the namespace's labels, or an error
DirectGetNamespace(api, name, fail) ==
    IF fail \/ name \notin DOMAIN api.namespaces
    THEN [err |-> TRUE, labels |-> NoLabels]
    ELSE [err |-> FALSE, labels |-> api.namespaces[name]]

\* the labels on the cluster's namespaces, counted
NumNamespaceLabels(api) ==
    Cardinality(UNION { {<<n, k>> : k \in DOMAIN api.namespaces[n]} :
                        n \in DOMAIN api.namespaces })

-----------------------------------------------------------------------------
(* app.go: HandleMutate *)

AppLabelKeys == {mixSchedulerKey, spotWeithtKey, ondemandWeithtKey}

Selectors == {[app |-> n] : n \in AppNames}

\* the existing affinity of the template's pod spec
AppAffinities ==
    { NilV,
      AffinityOf(NilV, PodAntiAffinityOf(NilV, NilV)),
      AffinityOf(NodeAffinityOf(NilV, Slice(<<PreferredSchedulingTerm(3, "zone-a")>>)),
                 PodAntiAffinityOf(NilV,
                     Slice(<<WeightedPodAffinityTerm(50, [tier |-> <<"db">>])>>))) }

Request(body, uid, kind, operation, namespace, labels, selector, affinity, nodeSelector, nodeName) ==
    [body |-> body, uid |-> uid, kind |-> kind, operation |-> operation,
     namespace |-> namespace, labels |-> labels, selector |-> selector,
     affinity |-> affinity, nodeSelector |-> nodeSelector, nodeName |-> nodeName]

\* a body that does not decode as an AdmissionReview
BadEnvelope ==
    Request("badEnvelope", Nil, Nil, Nil, Nil, NoLabels, NilV, NilV, NilV, "")

\* an AdmissionReview whose object does not decode as its kind
BadObject(uid, kind, operation) ==
    Request("badObject", uid, kind, operation, Nil, NoLabels, NilV, NilV, NilV, "")

\* mutant: the new node-affinity preferences replace the prior ones
AppendTerms_Replace(affinity, nodeTerms, podTerm) ==
    [affinity EXCEPT
       !.NodeAffinity.Preferred.items = nodeTerms,
       !.PodAntiAffinity.Preferred.items = @ \o <<podTerm>>]

\* mutant: terms that are already in the lists are not appended again
AppendTerms_Once(affinity, nodeTerms, podTerm) ==
    [affinity EXCEPT
       !.NodeAffinity.Preferred.items =
          IF \E x \in 1..Len(@) : @[x] = nodeTerms[1] THEN @ ELSE @ \o nodeTerms,
       !.PodAntiAffinity.Preferred.items =
          IF \E x \in 1..Len(@) : @[x] = podTerm THEN @ ELSE @ \o <<podTerm>>]

\* affinity with the node-affinity preferences and the anti-affinity term
\* appended to its lists
AppendTerms(affinity, nodeTerms, podTerm) ==
    [affinity EXCEPT
       !.NodeAffinity.Preferred.items = @ \o nodeTerms,
       !.PodAntiAffinity.Preferred.items = @ \o <<podTerm>>]

\* the patch of app.go: the filled affinity with the two node-affinity
\* preferences and the anti-affinity term appended
AppPatch(a, r, w) ==
    <<JSONPatchEntry("/spec/template/spec/affinity",
        AppendTerms(FillAffinity(r.affinity),
            <<PreferredSchedulingTerm(w.spotWeitht, spotKey),
              PreferredSchedulingTerm(w.ondemandWeitht, ondemandKey)>>,
            WeightedPodAffinityTerm(AntiAffinityWeightApp, r.selector)))>>

\* lines 197-325: weight resolution, then the patch
AppMutate(a, r, w, reads) ==
    IF w.err # "" THEN HandleError(w.err, reads)
    ELSE jsonOk(r, AppPatch(a, r, w), reads)

\* lines 145-160 of the Deployment case (175-190 of the StatefulSet case),
\* ns the result of the namespace lookup
AppAfterGetNamespace(a, r, ns, reads) ==
    IF ns.err THEN HandleError("get namespace", reads)
    ELSE IF SwitchLabelSkips(ns.labels) THEN writeNil(r, reads)
    ELSE AppMutate(a, r, ResolveWeights(a, r.labels, ns.labels), reads)

\* the response of app.go's HandleMutate to request r; fail: the namespace
\* lookup fails
AppHandle(a, api, r, fail) ==
    IF r.body = "badEnvelope" THEN HandleError("invalid JSON input", <<>>)
    ELSE IF r.kind \in {"Deployment", "StatefulSet"}
    THEN
      IF r.body = "badObject" THEN HandleError("unmarshal", <<>>)
      ELSE IF instanceIsSkip(a, r.namespace, r.labels) THEN writeNil(r, <<>>)
      ELSE AppAfterGetNamespace(a, r,
               DirectGetNamespace(api, r.namespace, fail),
               <<Read("GetNamespace", "direct",
                      ~fail /\ r.namespace \in DOMAIN api.namespaces)>>)
    ELSE Panic(<<>>)

\* the requests app.go is given
AppRequests ==
    {BadEnvelope}
    \cup {BadObject(u, k, "CREATE") : u \in UIDs, k \in {"Deployment", "StatefulSet"}}
    \cup { Request("ok", u, k, "CREATE", n, l, sel, aff, NilV, "") :
             u \in UIDs, k \in Kinds \ {"Pod"}, n \in Namespaces,
             l \in LabelMaps(AppLabelKeys, MaxLabels),
             sel \in Selectors, aff \in AppAffinities }

\* mutant: the weights resolved for the request are stored in the App's
\* own preference terms instead of in copies of them
AppHandleMutate_StoresWeights ==
    /\ pc = "idle"
    /\ \E r \in AppRequests, fail \in BOOLEAN :
         /\ NumLabels(r.labels) + NumNamespaceLabels(apiserver) <= MaxLabels
         /\ req' = r
         /\ resp' = AppHandle(app, apiserver, r, fail)
    /\ pc' = "done"
    /\ app' = IF resp'.envelope = "AdmissionReview" /\ resp'.patch # <<>>
              THEN [app EXCEPT
                      !.SpotWeight = resp'.patch[1].value.NodeAffinity.Preferred.items[
                          Len(resp'.patch[1].value.NodeAffinity.Preferred.items) - 1].Weight,
                      !.OndemandWeight = resp'.patch[1].value.NodeAffinity.Preferred.items[
                          Len(resp'.patch[1].value.NodeAffinity.Preferred.items)].Weight]
              ELSE app
    /\ UNCHANGED <<informer, synced, apiserver, cache>>

\* HandleMutate of app.go, from the request to the written response
AppHandleMutate ==
    /\ pc = "idle"
    /\ \E r \in AppRequests, fail \in BOOLEAN :
         /\ NumLabels(r.labels) + NumNamespaceLabels(apiserver) <= MaxLabels
         /\ req' = r
         /\ resp' = AppHandle(app, apiserver, r, fail)
    /\ pc' = "done"
    /\ UNCHANGED <<app, informer, synced, apiserver, cache>>

\* the response has been sent; the next request may arrive
Respond ==
    /\ pc = "done"
    /\ pc' = "idle"
    /\ req' = Idle
    /\ resp' = Idle
    /\ UNCHANGED <<app, informer, synced, apiserver, cache>>

-----------------------------------------------------------------------------
(* Process start: NewDefaultApp and StartServer *)

\* os.Getenv gives "" for an unset variable
EnvSwitchValues == {S_empty, S_false}
EnvSpotWeightValues == {S_empty, E_neg5}
EnvOndemandWeightValues == {S_empty, E_20}
\* notControllerNamespace, already split at the commas
EnvNamespaceValues == {<<>>, <<"default">>}

EnvVars ==
    [mixSchedulerRequierd : EnvSwitchValues,
     SPOT_NODE_WEIGHT : EnvSpotWeightValues,
     ONDEMAND_NODE_WEIGHT : EnvOndemandWeightValues,
     notControllerNamespace : EnvNamespaceValues]

UnsetEnv ==
    [mixSchedulerRequierd |-> S_empty, SPOT_NODE_WEIGHT |-> S_empty,
     ONDEMAND_NODE_WEIGHT |-> S_empty, notControllerNamespace |-> <<>>]

\* the environments of the model: at most one variable is set
Envs ==
    {e \in EnvVars :
       \E k \in DOMAIN UnsetEnv : \A j \in DOMAIN UnsetEnv \ {k} : e[j] = UnsetEnv[j]}

\* app.go NewDefaultApp and server.go NewDefaultApp: the defaults
NewDefaultApp ==
    [mixSchedulerRequierd |-> TRUE,
     notControllerNamespace |-> {},
     SpotWeight |-> DefaultSpotWeight,
     OndemandWeight |-> DefaultOndemandWeight,
     OnDemandMinPodNum |-> DefaultOnDemandMinPodNum,
     SpotMinPodNum |-> DefaultSpotMinPodNum]

\* int32(num) of an environment weight, with no sign check
EnvWeight(val, default) == IF val = S_empty THEN default ELSE ToInt32(AtoiTable[val])

\* StartServer returns the Atoi error, and the process does not serve
StartServerFails(env) ==
    \/ env.SPOT_NODE_WEIGHT # S_empty /\ AtoiTable[env.SPOT_NODE_WEIGHT].err
    \/ env.ONDEMAND_NODE_WEIGHT # S_empty /\ AtoiTable[env.ONDEMAND_NODE_WEIGHT].err

\* the App that StartServer serves with
StartServer(env) ==
    [NewDefaultApp EXCEPT
       !.mixSchedulerRequierd =
           IF env.mixSchedulerRequierd # S_empty
           THEN env.mixSchedulerRequierd = S_true ELSE TRUE,
       !.notControllerNamespace =
           IF env.notControllerNamespace # <<>>
           THEN {env.notControllerNamespace[i] :
                   i \in 1..Len(env.notControllerNamespace)}
           ELSE DefaultNotControllerNamespace,
       !.SpotWeight = EnvWeight(env.SPOT_NODE_WEIGHT, DefaultSpotWeight),
       !.OndemandWeight = EnvWeight(env.ONDEMAND_NODE_WEIGHT, DefaultOndemandWeight)]

EmptyCluster(nsLabels) ==
    [namespaces |-> [n \in Namespaces |-> IF n = "default" THEN nsLabels ELSE NoLabels],
     nodes |-> <<>>, pods |-> <<>>]

InitApp ==
    /\ \E env \in Envs :
         /\ ~StartServerFails(env)
         /\ app = StartServer(env)
    /\ synced = FALSE
    /\ informer = InformerState("spawned", "open", FALSE)
    /\ \E l \in LabelMaps(AppLabelKeys, MaxLabels) : apiserver = EmptyCluster(l)
    /\ cache = EmptyCluster(NoLabels)
    /\ req = Idle
    /\ resp = Idle
    /\ pc = "idle"

NextApp == AppHandleMutate \/ Respond

SpecApp == InitApp /\ [][NextApp]_vars

-----------------------------------------------------------------------------
(* app.go's handler applied again to the object it patched *)

\* every shape of podSpec.Affinity that FillAffinity distinguishes: no
\* affinity, a missing node-affinity block, a missing anti-affinity block,
\* blocks whose preference lists are nil, and blocks that hold entries
AffinityShapes ==
    AppAffinities \cup
    { AffinityOf(NodeAffinityOf(NilV, Slice(<<PreferredSchedulingTerm(3, "zone-a")>>)),
                 NilV),
      AffinityOf(NodeAffinityOf(NilV, NilV), PodAntiAffinityOf(NilV, NilV)),
      AffinityOf(NilV,
                 PodAntiAffinityOf(NilV,
                     Slice(<<WeightedPodAffinityTerm(50, [tier |-> <<"db">>])>>))) }

\* the templates the handler is first applied to
AgainRequests ==
    { Request("ok", u, k, "CREATE", "default", NoLabels, sel, aff, NilV, "") :
        u \in UIDs, k \in {"Deployment", "StatefulSet"},
        sel \in Selectors, aff \in AffinityShapes }

\* HandleMutate of app.go for a template as submitted
FirstApplication ==
    /\ pc = "idle"
    /\ \E r \in AgainRequests :
         /\ req' = r
         /\ resp' = AppHandle(app, apiserver, r, FALSE)
    /\ pc' = "done"
    /\ UNCHANGED <<app, informer, synced, apiserver, cache>>

\* the patch was applied to the object, and the object is submitted again:
\* HandleMutate of app.go for the template with the patched affinity
ApplyAgain ==
    /\ pc = "done"
    /\ resp.envelope = "AdmissionReview"
    /\ resp.patch # <<>>
    /\ Len(resp.patch[1].value.PodAntiAffinity.Preferred.items) < MaxTerms
    /\ req' = [req EXCEPT !.affinity = resp.patch[1].value]
    /\ resp' = AppHandle(app, apiserver,
                         [req EXCEPT !.affinity = resp.patch[1].value], FALSE)
    /\ pc' = "done"
    /\ UNCHANGED <<app, informer, synced, apiserver, cache>>

NextAgain == FirstApplication \/ ApplyAgain \/ Respond

SpecAgain == InitApp /\ [][NextAgain]_vars

-----------------------------------------------------------------------------
(* The cluster: nodes, pods, and the reads of part_005 *)

NodeNames == {"od-1", "spot-1", "plain-1"}

\* the labels of the cluster's nodes; withSpot: the Spot node exists
NodeLabels(withSpot) ==
    [n \in (IF withSpot THEN NodeNames ELSE NodeNames \ {"spot-1"}) |->
       IF n = "od-1" THEN [c \in {capacityKey} |-> ondemandKey]
       ELSE IF n = "spot-1" THEN [c \in {capacityKey} |-> spotKey]
       ELSE [c \in {} |-> ""]]

Condition(type, status, reason) == [Type |-> type, Status |-> status, Reason |-> reason]
CondReady == <<Condition("Ready", "True", "")>>
CondNotReady == <<Condition("Ready", "False", "ContainersNotReady")>>
CondCompleted == <<Condition("Ready", "False", "PodCompleted")>>
CondScheduledOnly == <<Condition("PodScheduled", "True", "")>>

Pod(namespace, labels, nodeName, conditions) ==
    [namespace |-> namespace, labels |-> labels, nodeName |-> nodeName,
     conditions |-> conditions]

AppA == [k \in {"app"} |-> <<"a">>]
AppB == [k \in {"app"} |-> <<"b">>]

\* the pods a cluster of the model is made of
PodShapes ==
    << Pod("default", AppA, "od-1", CondReady),
       Pod("default", AppA, "od-1", CondNotReady),
       Pod("default", AppA, "od-1", CondCompleted),
       Pod("default", AppA, "od-1", CondScheduledOnly),
       Pod("default", AppA, "spot-1", CondReady),
       Pod("default", AppA, "spot-1", CondNotReady),
       Pod("default", AppA, "", CondReady),
       Pod("default", AppB, "od-1", CondReady),
       Pod("kube-system", AppA, "od-1", CondReady) >>

\* the lists of at most max pods of the shapes, in the order of the shapes
PodListsOf(shapes, max) ==
    UNION { { [i \in 1..n |-> shapes[ix[i]]] :
                ix \in {f \in [1..n -> 1..Len(shapes)] :
                          \A i \in 1..(n - 1) : f[i] <= f[i + 1]} } :
            n \in 0..max }

\* the pod lists of at most MaxPods pods, in the order of PodShapes
PodLists == PodListsOf(PodShapes, MaxPods)

\* mutant: any Ready condition counts, whatever its status
PodReady_AnyStatus(pod) ==
    \E ci \in 1..Len(pod.conditions) : pod.conditions[ci].Type = "Ready"

\* PodReady: a Ready condition that is True or has reason PodCompleted
PodReady(pod) ==
    \E ci \in 1..Len(pod.conditions) :
       /\ pod.conditions[ci].Type = "Ready"
       /\ \/ pod.conditions[ci].Reason = "PodCompleted"
          \/ pod.conditions[ci].Status = "True"

\* labels.Set(sel).AsSelector() matches the label maps that hold every pair
SelectorMatches(sel, labels) ==
    \A k \in DOMAIN sel : k \in DOMAIN labels /\ labels[k] = sel[k]

\* App.informermanager.IsSynced()
IsSynced(s) == s

\* mutant: every read is a direct query
ReadMode_AlwaysDirect(s) == "direct"

\* the branch a read helper of part_005 takes
ReadMode(s) == IF IsSynced(s) THEN "cache" ELSE "direct"
\* the store a read is served from
View(s, api, c) == IF IsSynced(s) THEN c ELSE api

\* App.GetNamespace: the lister fails when the namespace is not in its store,
\* the direct query also when the call fails
GetNamespace(s, api, c, name, fail) ==
    IF (~IsSynced(s) /\ fail) \/ name \notin DOMAIN View(s, api, c).namespaces
    THEN [err |-> TRUE, labels |-> NoLabels]
    ELSE [err |-> FALSE, labels |-> View(s, api, c).namespaces[name]]

\* App.GetNode
GetNode(s, api, c, name, fail) ==
    IF (~IsSynced(s) /\ fail) \/ name \notin DOMAIN View(s, api, c).nodes
    THEN [err |-> TRUE, labels |-> NoLabels]
    ELSE [err |-> FALSE, labels |-> View(s, api, c).nodes[name]]

\* App.ListNode with the selector capacityKey = capacity: the node names
ListNode(s, api, c, capacity, fail) ==
    IF ~IsSynced(s) /\ fail THEN [err |-> TRUE, names |-> {}]
    ELSE [err |-> FALSE,
          names |-> {n \in DOMAIN View(s, api, c).nodes :
                       /\ capacityKey \in DOMAIN View(s, api, c).nodes[n]
                       /\ View(s, api, c).nodes[n][capacityKey] = capacity}]

\* App.ListPod: the indices of the pods of the namespace the selector matches
ListPod(s, api, c, namespace, selector, fail) ==
    IF ~IsSynced(s) /\ fail THEN [err |-> TRUE, pods |-> {}]
    ELSE [err |-> FALSE,
          pods |-> {i \in 1..Len(View(s, api, c).pods) :
                      /\ View(s, api, c).pods[i].namespace = namespace
                      /\ SelectorMatches(selector, View(s, api, c).pods[i].labels)}]

\* mutant: a node whose lookup fails is taken for an OnDemand node
nodeCapacityOf_FailedIsOndemand(node) ==
    IF node.err THEN ondemandKey
    ELSE IF capacityKey \notin DOMAIN node.labels THEN ""
    ELSE node.labels[capacityKey]

\* App.nodeCapacity: the node's capacity label, "" when the lookup fails or
\* the node has no such label
nodeCapacityOf(node) ==
    IF node.err \/ capacityKey \notin DOMAIN node.labels THEN ""
    ELSE node.labels[capacityKey]

\* the loop of podExistAndReadyOnNodeCapacityNum: pods bound to one of the
\* capacity's nodes and ready
CountOnNodes(podList, names, idx) ==
    Cardinality({i \in idx : podList[i].nodeName \in names /\ PodReady(podList[i])})

\* podExistAndReadyOnNodeCapacityNum on the results of its two reads: the
\* count, and the reads it made (the pods are not listed when the node list
\* failed or is empty)
CountFromReads(podList, nodes, pods, mode) ==
    IF nodes.err THEN [num |-> 0, reads |-> <<Read("ListNode", mode, FALSE)>>]
    ELSE IF nodes.names = {} THEN [num |-> 0, reads |-> <<Read("ListNode", mode, TRUE)>>]
    ELSE IF pods.err
    THEN [num |-> 0,
          reads |-> <<Read("ListNode", mode, TRUE), Read("ListPod", mode, FALSE)>>]
    ELSE [num |-> CountOnNodes(podList, nodes.names, pods.pods),
          reads |-> <<Read("ListNode", mode, TRUE), Read("ListPod", mode, TRUE)>>]

\* App.podExistAndReadyOnNodeCapacityNum(capacity, pod); failN, failP: the
\* node list, the pod list fails
podExistAndReadyOnNodeCapacityNum(s, api, c, capacity, pod, failN, failP) ==
    CountFromReads(View(s, api, c).pods,
                   ListNode(s, api, c, capacity, failN),
                   ListPod(s, api, c, pod.namespace, pod.labels, failP),
                   ReadMode(s))

-----------------------------------------------------------------------------
(* server.go: HandleMutate *)

ServerLabelKeys == {mixSchedulerKey, "app"}

NodeSelectorOf(map) == [nil |-> FALSE, map |-> map]
NodeSelectors == {NilV, NodeSelectorOf([k \in {"disk"} |-> "ssd"])}

ServerAffinities ==
    { NilV,
      AffinityOf(NilV, NilV),
      AffinityOf(NilV, PodAntiAffinityOf(NilV,
          Slice(<<WeightedPodAffinityTerm(50, [tier |-> <<"db">>])>>))) }

\* server.go FillAffinity: only a missing affinity is replaced
ServerFillAffinity(podSpecAffinity) ==
    IF podSpecAffinity.nil
    THEN AffinityOf(NilV, PodAntiAffinityOf(NilV, Slice(<<>>)))
    ELSE podSpecAffinity

\* nodeSelector[capacityKey] = value on the template's map (an empty map
\* when the template has none)
SetCapacity(nodeSelector, value) ==
    [k \in (IF nodeSelector.nil THEN {} ELSE DOMAIN nodeSelector.map) \cup {capacityKey} |->
       IF k = capacityKey THEN value ELSE nodeSelector.map[k]]

\* lines 351-418: the anti-affinity list is assigned, not appended to; the
\* assignment dereferences affinity.PodAntiAffinity
ServerTemplatePatch(r, affinity, reads) ==
    IF affinity.PodAntiAffinity.nil THEN Panic(reads)
    ELSE jsonOk(r,
           <<JSONPatchEntry("/spec/template/spec/affinity",
                [affinity EXCEPT !.PodAntiAffinity.Preferred =
                   Slice(<<WeightedPodAffinityTerm(AntiAffinityWeightServer, r.selector)>>)]),
             JSONPatchEntry("/spec/template/spec/nodeSelector",
                SetCapacity(r.nodeSelector, spotKey))>>,
           reads)

\* lines 205-222 (237-253), ns the result of App.GetNamespace
ServerAfterGetNamespace(r, ns, reads) ==
    IF ns.err THEN HandleError("get namespace", reads)
    ELSE IF SwitchLabelSkips(ns.labels) THEN writeNil(r, reads)
    ELSE ServerTemplatePatch(r, ServerFillAffinity(r.affinity), reads)

\* mutant: a Spot count one below the floor meets it
SpotFloorMet_Lenient(a, spotNum) == spotNum >= a.SpotMinPodNum - 1

\* mutant: the Spot floor is not looked at
SpotFloorMet_Always(a, spotNum) == TRUE

\* line 277, left of &&: the Spot count is at or above the Spot floor
SpotFloorMet(a, spotNum) == spotNum >= a.SpotMinPodNum

\* line 277, right of &&: the OnDemand count is below the OnDemand floor
OndemandBelowFloor(a, ondemandNum) == ondemandNum < a.OnDemandMinPodNum

\* mutant: the floor always counts as met
FloorMet_Always(a, ondemandNum) == TRUE

\* mutant: a count equal to the floor does not meet it
FloorMet_Strict(a, ondemandNum) == ondemandNum > a.OnDemandMinPodNum

\* line 289: the OnDemand floor is met, the created pod is left alone
FloorMet(a, ondemandNum) == ondemandNum >= a.OnDemandMinPodNum

\* lines 277-285; Go's && does not count the OnDemand pods when the Spot
\* count is below its floor
PodDelete(a, r, spot, od, reads) ==
    IF SpotFloorMet(a, spot.num)
    THEN IF OndemandBelowFloor(a, od.num)
         THEN HandleError("preferentially scale pods on spot nodes",
                          reads \o spot.reads \o od.reads)
         ELSE writeNil(r, reads \o spot.reads \o od.reads)
    ELSE writeNil(r, reads \o spot.reads)

\* mutant: the created pod is sent to the Spot class
OndemandNodeSelector_Spot == [k \in {capacityKey} |-> spotKey]

\* lines 296-298: nodeSelector = {capacityKey: ondemandKey}
OndemandNodeSelector == [k \in {capacityKey} |-> ondemandKey]

\* mutant: the OnDemand class is set in the pod's own node selector
PodCreate_KeepsSelector(a, r, od) ==
    IF FloorMet(a, od.num) THEN writeNil(r, od.reads)
    ELSE jsonOk(r, <<JSONPatchEntry("/spec/nodeSelector",
                                    SetCapacity(r.nodeSelector, ondemandKey))>>,
                od.reads)

\* lines 288-341
PodCreate(a, r, od) ==
    IF FloorMet(a, od.num) THEN writeNil(r, od.reads)
    ELSE jsonOk(r, <<JSONPatchEntry("/spec/nodeSelector", OndemandNodeSelector)>>,
                od.reads)

\* lines 275-343, after instanceIsSkip; f: the reads that fail
ServerPod(a, s, api, c, r, f) ==
    IF r.operation = "DELETE"
       /\ nodeCapacityOf(GetNode(s, api, c, r.nodeName, "GetNode" \in f)) = ondemandKey
    THEN PodDelete(a, r,
           podExistAndReadyOnNodeCapacityNum(s, api, c, spotKey, r,
               "SpotNodes" \in f, "SpotPods" \in f),
           podExistAndReadyOnNodeCapacityNum(s, api, c, ondemandKey, r,
               "OndemandNodes" \in f, "OndemandPods" \in f),
           <<Read("GetNode", ReadMode(s), TRUE)>>)
    ELSE IF r.operation = "DELETE"
    THEN writeNil(r, <<Read("GetNode", ReadMode(s),
                           ~GetNode(s, api, c, r.nodeName, "GetNode" \in f).err)>>)
    ELSE IF r.operation = "CREATE"
    THEN PodCreate(a, r,
           podExistAndReadyOnNodeCapacityNum(s, api, c, ondemandKey, r,
               "OndemandNodes" \in f, "OndemandPods" \in f))
    ELSE writeNil(r, <<>>)

\* mutant: the object always decodes
UnmarshalFails_Never(r) == FALSE

\* json.Unmarshal of the request's object into its kind returns an error
UnmarshalFails(r) == r.body = "badObject"

\* the response of server.go's HandleMutate to request r
ServerHandle(a, s, api, c, r, f) ==
    IF r.body = "badEnvelope" THEN HandleError("invalid JSON input", <<>>)
    ELSE IF r.kind \in {"Deployment", "StatefulSet"}
    THEN
      IF UnmarshalFails(r) THEN HandleError("unmarshal", <<>>)
      ELSE IF instanceIsSkip(a, r.namespace, r.labels) THEN writeNil(r, <<>>)
      ELSE ServerAfterGetNamespace(r,
               GetNamespace(s, api, c, r.namespace, "GetNamespace" \in f),
               <<Read("GetNamespace", ReadMode(s),
                      ~GetNamespace(s, api, c, r.namespace, "GetNamespace" \in f).err)>>)
    ELSE IF r.kind = "Pod"
    THEN
      IF UnmarshalFails(r) THEN HandleError("unmarshal to pod", <<>>)
      ELSE IF instanceIsSkip(a, r.namespace, r.labels) THEN writeNil(r, <<>>)
      ELSE ServerPod(a, s, api, c, r, f)
    ELSE Panic(<<>>)

ReadSlots ==
    {"GetNamespace", "GetNode", "SpotNodes", "SpotPods", "OndemandNodes", "OndemandPods"}

\* the reads that fail while one request is handled: none, or one of them
FailChoices == {{}} \cup {{x} : x \in ReadSlots}

\* the requests server.go is given; only a pod being deleted names its node
ServerRequests ==
    {BadEnvelope}
    \cup {BadObject(u, k, o) : u \in UIDs, k \in Kinds \ {"Service"}, o \in Operations}
    \cup { Request("ok", u, k, o, n, l, [app |-> <<"a">>], aff, nsel, "") :
             u \in UIDs, k \in {"Deployment", "StatefulSet"}, o \in {"CREATE", "UPDATE"},
             n \in Namespaces, l \in LabelMaps({mixSchedulerKey}, MaxLabels),
             aff \in ServerAffinities, nsel \in NodeSelectors }
    \cup { Request("ok", u, "Pod", o, n, l, NilV, NilV, NilV, node) :
             u \in UIDs, o \in Operations, n \in Namespaces,
             l \in LabelMaps(ServerLabelKeys, MaxLabels),
             node \in NodeNames \cup {""} }
    \cup { Request("ok", u, "Service", "CREATE", n, NoLabels, NilV, NilV, NilV, "") :
             u \in UIDs, n \in Namespaces }

\* HandleMutate of server.go, from the request to the written response; the
\* cluster's pods are read for pod requests only, so the other requests are
\* drawn in the clusters without pods
ServerHandleMutate ==
    /\ pc = "idle"
    /\ \E r \in ServerRequests, f \in FailChoices :
         /\ NumLabels(r.labels) + NumNamespaceLabels(apiserver) <= MaxLabels
         /\ r.operation # "DELETE" => r.nodeName = ""
         /\ r.kind # "Pod" => apiserver.pods = <<>>
         /\ IsSynced(synced) => f = {}
         /\ req' = r
         /\ resp' = ServerHandle(app, synced, apiserver, cache, r, f)
    /\ pc' = "done"
    /\ UNCHANGED <<app, informer, synced, apiserver, cache>>

\* SingleClusterManager.StartInformer: the caches have synced and the flag
\* is set
StartInformer ==
    /\ ~synced
    /\ pc = "idle"
    /\ cache' = apiserver
    /\ synced' = TRUE
    /\ informer' = InformerState("returned", informer.stopCh, TRUE)
    /\ UNCHANGED <<app, apiserver, req, resp, pc>>

ServerEnvs ==
    {e \in Envs : e.SPOT_NODE_WEIGHT = S_empty /\ e.ONDEMAND_NODE_WEIGHT = S_empty}

Cluster(nsLabels, withSpot, pods) ==
    [namespaces |-> [n \in Namespaces |-> IF n = "default" THEN nsLabels ELSE NoLabels],
     nodes |-> NodeLabels(withSpot), pods |-> pods]

InitServer ==
    /\ \E env \in ServerEnvs : app = StartServer(env)
    /\ synced = FALSE
    /\ informer = InformerState("spawned", "open", FALSE)
    /\ \E l \in LabelMaps({mixSchedulerKey}, MaxLabels), withSpot \in BOOLEAN,
          pods \in PodLists :
         /\ l = NoLabels \/ pods = <<>>
         /\ apiserver = Cluster(l, withSpot, pods)
    /\ cache = EmptyCluster(NoLabels)
    /\ req = Idle
    /\ resp = Idle
    /\ pc = "idle"

NextServer == ServerHandleMutate \/ StartInformer \/ Respond

SpecServer == InitServer /\ [][NextServer]_vars

-----------------------------------------------------------------------------
(* Pod creates against a cluster that changes under the informer cache *)

\* the pods of the changing cluster: also a pod on the node without a
\* capacity label
RacePodShapes == PodShapes \o <<Pod("default", AppA, "plain-1", CondReady)>>

\* the pod creates of one workload's replicas
RaceRequests ==
    { Request("ok", u, "Pod", "CREATE", "default", l, NilV, NilV, nsel, "") :
        u \in UIDs, l \in {AppA, AppB}, nsel \in NodeSelectors }

\* HandleMutate of server.go for a pod create
PodCreateRequest ==
    /\ pc = "idle"
    /\ \E r \in RaceRequests, f \in FailChoices :
         /\ IsSynced(synced) => f = {}
         /\ req' = r
         /\ resp' = ServerHandle(app, synced, apiserver, cache, r, f)
    /\ pc' = "done"
    /\ UNCHANGED <<app, informer, synced, apiserver, cache>>

\* the kubelet reports a pod ready or not ready
PodReadinessChange ==
    /\ pc = "idle"
    /\ \E i \in 1..Len(apiserver.pods), c \in {CondReady, CondNotReady} :
         /\ apiserver.pods[i].conditions \in {CondReady, CondNotReady}
         /\ apiserver.pods[i].conditions # c
         /\ apiserver' = [apiserver EXCEPT !.pods[i].conditions = c]
    /\ UNCHANGED <<app, informer, synced, cache, req, resp, pc>>

\* a pod is removed from the cluster
PodRemoval ==
    /\ pc = "idle"
    /\ \E i \in 1..Len(apiserver.pods) :
         apiserver' = [apiserver EXCEPT !.pods =
                         [j \in 1..(Len(apiserver.pods) - 1) |->
                            IF j < i THEN apiserver.pods[j] ELSE apiserver.pods[j + 1]]]
    /\ UNCHANGED <<app, informer, synced, cache, req, resp, pc>>

\* the informers deliver the cluster's changes to the listers' stores
InformerEvent ==
    /\ synced
    /\ pc = "idle"
    /\ cache # apiserver
    /\ cache' = apiserver
    /\ UNCHANGED <<app, informer, synced, apiserver, req, resp, pc>>

InitRace ==
    /\ app = StartServer(UnsetEnv)
    /\ synced = FALSE
    /\ informer = InformerState("spawned", "open", FALSE)
    /\ \E withSpot \in BOOLEAN, pods \in PodListsOf(RacePodShapes, MaxPods) :
         apiserver = Cluster(NoLabels, withSpot, pods)
    /\ cache = EmptyCluster(NoLabels)
    /\ req = Idle
    /\ resp = Idle
    /\ pc = "idle"

NextRace ==
    \/ PodCreateRequest
    \/ StartInformer
    \/ PodReadinessChange
    \/ PodRemoval
    \/ InformerEvent
    \/ Respond

SpecRace == InitRace /\ [][NextRace]_vars

-----------------------------------------------------------------------------
(* Properties of app.go's handler (SpecApp) *)

Handled == pc = "done"
IsTemplate(r) == r.body = "ok" /\ r.kind \in {"Deployment", "StatefulSet"}
NamespaceLabelsOf(r) == apiserver.namespaces[r.namespace]
ReadsSucceeded(r) == \A i \in 1..Len(r.reads) : r.reads[i].ok
HasLabel(labels, k) == k \in DOMAIN labels
WeightKeys == {spotWeithtKey, ondemandWeithtKey}
NoWeightLabels(labels) == DOMAIN labels \cap WeightKeys = {}

\* the request passed both switch checks and the namespace lookup, so the
\* handler went on to resolve the weights
ReachedWeightResolution ==
    /\ Handled
    /\ IsTemplate(req)
    /\ ~instanceIsSkip(app, req.namespace, req.labels)
    /\ resp.reads # <<>>
    /\ ReadsSucceeded(resp)
    /\ ~SwitchLabelSkips(NamespaceLabelsOf(req))

\* the two node-affinity preferences the handler appended
PatchedPreferences == resp.patch[1].value.NodeAffinity.Preferred.items
PatchSpotWeight == PatchedPreferences[Len(PatchedPreferences) - 1].Weight
PatchOndemandWeight == PatchedPreferences[Len(PatchedPreferences)].Weight

\* the number a well-formed small weight label states
SmallWeights == {W_5, W_7}
SmallWeightValue(s) == IF s = W_5 THEN 5 ELSE 7
WellFormedWeights(labels) ==
    \A k \in DOMAIN labels \cap WeightKeys : labels[k] \in SmallWeights

\* instance label, else namespace label, else process default, for one field
PerFieldWeight(k, default) ==
    IF HasLabel(req.labels, k) THEN SmallWeightValue(req.labels[k])
    ELSE IF HasLabel(NamespaceLabelsOf(req), k)
    THEN SmallWeightValue(NamespaceLabelsOf(req)[k])
    ELSE default

\* C1: each weight is resolved on its own: the instance label if present,
\* else the namespace label if present, else the process default; so an
\* instance that sets one weight leaves the other to the namespace label.
C1_PerFieldWeights ==
    ( /\ ReachedWeightResolution
      /\ WellFormedWeights(req.labels)
      /\ WellFormedWeights(NamespaceLabelsOf(req)) )
    => /\ AllowedWithPatch(resp)
       /\ PatchSpotWeight = PerFieldWeight(spotWeithtKey, app.SpotWeight)
       /\ PatchOndemandWeight = PerFieldWeight(ondemandWeithtKey, app.OndemandWeight)

\* C2: the instance switch wins over the namespace switch: in a non-excluded
\* namespace an instance whose enable label is "true" is mutated even though
\* the namespace's enable label is "false".
C2_InstanceSwitchWins ==
    ( /\ Handled
      /\ IsTemplate(req)
      /\ isControllerNamespace(app, req.namespace)
      /\ HasLabel(req.labels, mixSchedulerKey)
      /\ req.labels[mixSchedulerKey] = S_true
      /\ app.mixSchedulerRequierd
      /\ HasLabel(NamespaceLabelsOf(req), mixSchedulerKey)
      /\ NamespaceLabelsOf(req)[mixSchedulerKey] = S_false
      /\ ReadsSucceeded(resp) )
    => AllowedWithPatch(resp)

\* a weight label value that is not an integer, or is negative
BadWeight(s) == s \in {W_bad, W_neg}
HasBadWeight(labels) ==
    \E k \in DOMAIN labels \cap WeightKeys : BadWeight(labels[k])

\* C4: a weight label that is not an integer or is negative, on the instance
\* or on the namespace, ends the request in a rejection with no patch, also
\* when the bad label is on the namespace and the instance sets a weight.
C4_BadWeightRejected ==
    ( /\ ReachedWeightResolution
      /\ HasBadWeight(req.labels) \/ HasBadWeight(NamespaceLabelsOf(req)) )
    => Rejected(resp) /\ resp.patch = <<>>

\* C5: both node-affinity weights of every emitted patch are non-negative.
C5_WeightsNonNegative ==
    (Handled /\ AllowedWithPatch(resp))
    => PatchSpotWeight >= 0 /\ PatchOndemandWeight >= 0

\* a switch value that is neither "true" nor "false" nor empty
NonCanonical(labels) ==
    HasLabel(labels, mixSchedulerKey) /\ labels[mixSchedulerKey] = S_yes

\* C6 as stated: a switch label that is neither "true" nor "false" is as if
\* unset, so with the process switch on the request is mutated like an
\* unlabeled one.
C6_NonCanonicalIsUnset ==
    ( /\ Handled
      /\ IsTemplate(req)
      /\ isControllerNamespace(app, req.namespace)
      /\ app.mixSchedulerRequierd
      /\ NonCanonical(req.labels)
      /\ NoWeightLabels(req.labels)
      /\ NamespaceLabelsOf(req) = NoLabels
      /\ ReadsSucceeded(resp) )
    => AllowedWithPatch(resp)

\* the switch label of the map is set to something other than "" and "true"
SetNotTrue(labels) ==
    HasLabel(labels, mixSchedulerKey) /\ labels[mixSchedulerKey] \notin {S_empty, S_true}
\* the switch label of the map is absent or empty
Unset(labels) ==
    ~HasLabel(labels, mixSchedulerKey) \/ labels[mixSchedulerKey] = S_empty

\* C6 (amended): a switch label set to anything but "" and "true" ("false",
\* "yes") disables mutation at its level: on the instance the request is
\* allowed with no patch; on the namespace it is allowed with no patch when
\* the instance passed and the namespace was read.  Only an absent or empty
\* label falls through: with both levels unset, the process switch on and no
\* weight labels, the request is mutated.
C6_NonTrueSwitchSkips ==
    /\ (Handled /\ IsTemplate(req) /\ SetNotTrue(req.labels))
         => AllowedNoPatch(resp) /\ resp.reads = <<>>
    /\ ( /\ Handled
         /\ IsTemplate(req)
         /\ ~instanceIsSkip(app, req.namespace, req.labels)
         /\ ReadsSucceeded(resp)
         /\ SetNotTrue(NamespaceLabelsOf(req)) )
         => AllowedNoPatch(resp)
    /\ ( /\ Handled
         /\ IsTemplate(req)
         /\ isControllerNamespace(app, req.namespace)
         /\ app.mixSchedulerRequierd
         /\ Unset(req.labels)
         /\ Unset(NamespaceLabelsOf(req))
         /\ NoWeightLabels(req.labels)
         /\ NoWeightLabels(NamespaceLabelsOf(req))
         /\ ReadsSucceeded(resp) )
         => AllowedWithPatch(resp)

\* C6 witness: an instance labelled "yes" in a controlled namespace, with the
\* process switch on, was allowed with no patch
C6_Witness ==
    /\ Handled
    /\ IsTemplate(req)
    /\ isControllerNamespace(app, req.namespace)
    /\ app.mixSchedulerRequierd
    /\ NonCanonical(req.labels)
    /\ AllowedNoPatch(resp)

\* the node-affinity preferences (the anti-affinity terms) of an affinity,
\* none when the affinity, the block or the list is missing
NodeTermsOf(affinity) ==
    IF affinity.nil THEN <<>>
    ELSE IF affinity.NodeAffinity.nil THEN <<>>
    ELSE IF affinity.NodeAffinity.Preferred.nil THEN <<>>
    ELSE affinity.NodeAffinity.Preferred.items
AntiTermsOf(affinity) ==
    IF affinity.nil THEN <<>>
    ELSE IF affinity.PodAntiAffinity.nil THEN <<>>
    ELSE IF affinity.PodAntiAffinity.Preferred.nil THEN <<>>
    ELSE affinity.PodAntiAffinity.Preferred.items

\* seq is prefix followed by exactly the entries of added
Extends(seq, prefix, added) ==
    /\ Len(seq) = Len(prefix) + Len(added)
    /\ \A x \in 1..Len(prefix) : seq[x] = prefix[x]
    /\ \A x \in 1..Len(added) : seq[Len(prefix) + x] = added[x]

\* C18: the affinity of a patch holds every node-affinity preference the
\* template had, unchanged and in order, followed by exactly two entries:
\* the Spot class, then the OnDemand class, at the process weights when no
\* weight label is set.
C18_PriorPreferencesKept ==
    (Handled /\ IsTemplate(req) /\ AllowedWithPatch(resp))
    => /\ Len(PatchedPreferences) = Len(NodeTermsOf(req.affinity)) + 2
       /\ \A x \in 1..Len(NodeTermsOf(req.affinity)) :
            PatchedPreferences[x] = NodeTermsOf(req.affinity)[x]
       /\ PatchedPreferences[Len(PatchedPreferences) - 1].Key = capacityKey
       /\ PatchedPreferences[Len(PatchedPreferences) - 1].Values = <<spotKey>>
       /\ PatchedPreferences[Len(PatchedPreferences)].Key = capacityKey
       /\ PatchedPreferences[Len(PatchedPreferences)].Values = <<ondemandKey>>
       /\ (NoWeightLabels(req.labels) /\ NoWeightLabels(NamespaceLabelsOf(req)))
            => /\ PatchSpotWeight = app.SpotWeight
               /\ PatchOndemandWeight = app.OndemandWeight

\* C18 witness: a template that already preferred zone-a was patched
C18_Witness ==
    /\ Handled
    /\ IsTemplate(req)
    /\ NodeTermsOf(req.affinity) = <<PreferredSchedulingTerm(3, "zone-a")>>
    /\ AllowedWithPatch(resp)
    /\ Len(PatchedPreferences) = 3

\* C20: Scenario A.  A Deployment or StatefulSet in a controlled namespace,
\* no switch or weight label on the instance or the namespace, no affinity,
\* the process switch on and the process weights 10 and 1: the response is
\* allowed with a patch whose affinity holds exactly the two node-affinity
\* preferences Spot at 10 and OnDemand at 1, and exactly one anti-affinity
\* term with the workload's selector and the hostname topology key.
ScenarioA ==
    /\ Handled
    /\ IsTemplate(req)
    /\ isControllerNamespace(app, req.namespace)
    /\ req.labels = NoLabels
    /\ NamespaceLabelsOf(req) = NoLabels
    /\ req.affinity = NilV
    /\ app.mixSchedulerRequierd
    /\ app.SpotWeight = 10
    /\ app.OndemandWeight = 1
    /\ ReadsSucceeded(resp)

C20_ScenarioA ==
    ScenarioA
    => /\ AllowedWithPatch(resp)
       /\ Len(resp.patch) = 1
       /\ resp.patch[1].path = "/spec/template/spec/affinity"
       /\ NodeTermsOf(resp.patch[1].value) =
            << [Weight |-> 10, Key |-> capacityKey, Operator |-> "In",
                Values |-> <<spotKey>>],
               [Weight |-> 1, Key |-> capacityKey, Operator |-> "In",
                Values |-> <<ondemandKey>>] >>
       /\ Len(AntiTermsOf(resp.patch[1].value)) = 1
       /\ AntiTermsOf(resp.patch[1].value)[1].LabelSelector = req.selector
       /\ AntiTermsOf(resp.patch[1].value)[1].TopologyKey = "kubernetes.io/hostname"

\* C20 witness: Scenario A happened for a StatefulSet and it was patched
C20_Witness ==
    /\ ScenarioA
    /\ req.kind = "StatefulSet"
    /\ AllowedWithPatch(resp)

\* the two node-affinity preferences an application appended to the
\* affinity it patched, the anti-affinity term an application appends
AddedNodeTerms(patched) ==
    <<NodeTermsOf(patched)[Len(NodeTermsOf(patched)) - 1],
      NodeTermsOf(patched)[Len(NodeTermsOf(patched))]>>
AddedAntiTerm(r) ==
    [Weight |-> 1, TopologyKey |-> "kubernetes.io/hostname", LabelSelector |-> r.selector]

\* the number of times x occurs in seq
Occurrences(seq, x) == Cardinality({i \in 1..Len(seq) : seq[i] = x})

\* C19: each application that patches appends: applied to the patched result
\* of the previous application, the handler patches again, and the new
\* affinity is the previous one followed by exactly two node-affinity
\* preferences and exactly one anti-affinity term; so after n applications
\* the lists hold the original entries and 2n and n added ones, the n-th
\* application adding the n-th copy of each.
C19_AppendsOnEachApplication ==
    [][ (pc = "done" /\ pc' = "done")
        => /\ resp'.envelope = "AdmissionReview" /\ resp'.allowed
           /\ Len(resp'.patch) = 1
           /\ Extends(NodeTermsOf(resp'.patch[1].value),
                      NodeTermsOf(resp.patch[1].value),
                      AddedNodeTerms(resp.patch[1].value))
           /\ AddedNodeTerms(resp'.patch[1].value)[1].Values = <<spotKey>>
           /\ AddedNodeTerms(resp'.patch[1].value)[2].Values = <<ondemandKey>>
           /\ Extends(AntiTermsOf(resp'.patch[1].value),
                      AntiTermsOf(resp.patch[1].value), <<AddedAntiTerm(req)>>)
           /\ Occurrences(AntiTermsOf(resp'.patch[1].value), AddedAntiTerm(req))
                = Occurrences(AntiTermsOf(resp.patch[1].value), AddedAntiTerm(req)) + 1
      ]_vars

\* C19 witness: after three applications to a template that had one
\* preference and one term, the lists hold 1 + 6 and 1 + 3 entries
C19_Witness ==
    /\ Handled
    /\ AllowedWithPatch(resp)
    /\ Len(NodeTermsOf(resp.patch[1].value)) = 7
    /\ Len(AntiTermsOf(resp.patch[1].value)) = 4
    /\ Occurrences(AntiTermsOf(resp.patch[1].value), AddedAntiTerm(req)) = 3
    /\ NodeTermsOf(resp.patch[1].value)[1] = PreferredSchedulingTerm(3, "zone-a")

-----------------------------------------------------------------------------
(* Properties of server.go's handler (SpecServer) *)

IsPod(r) == r.body = "ok" /\ r.kind = "Pod"

\* the node carries the capacity label with this value
NodeHasCapacity(name, capacity) ==
    /\ name \in DOMAIN apiserver.nodes
    /\ capacityKey \in DOMAIN apiserver.nodes[name]
    /\ apiserver.nodes[name][capacityKey] = capacity

\* the ready pods of the request's selector, in its namespace, that are bound
\* to a node of the capacity class
ReadyReplicas(capacity) ==
    {i \in 1..Len(apiserver.pods) :
       /\ apiserver.pods[i].namespace = req.namespace
       /\ SelectorMatches(req.labels, apiserver.pods[i].labels)
       /\ PodReady(apiserver.pods[i])
       /\ NodeHasCapacity(apiserver.pods[i].nodeName, capacity)}
ReadyCount(capacity) == Cardinality(ReadyReplicas(capacity))

\* the pod of the request is one of the counted OnDemand replicas
DeletedPodCounted ==
    \E i \in ReadyReplicas(ondemandKey) :
       /\ apiserver.pods[i].nodeName = req.nodeName
       /\ apiserver.pods[i].labels = req.labels

\* a delete of a pod bound to an OnDemand node, past the skip check
DeleteOnOndemand ==
    /\ Handled
    /\ IsPod(req)
    /\ req.operation = "DELETE"
    /\ ~instanceIsSkip(app, req.namespace, req.labels)
    /\ NodeHasCapacity(req.nodeName, ondemandKey)
    /\ ReadsSucceeded(resp)

\* a create of a pod, past the skip check
CreatePod ==
    /\ Handled
    /\ IsPod(req)
    /\ req.operation = "CREATE"
    /\ ~instanceIsSkip(app, req.namespace, req.labels)

C7_DeleteVetoProtectsFloor ==
    (DeleteOnOndemand /\ DeletedPodCounted)
    => /\ Rejected(resp) <=>
            ( /\ ReadyCount(ondemandKey) - 1 < app.OnDemandMinPodNum
              /\ ReadyCount(spotKey) >= app.SpotMinPodNum )
       /\ ~Rejected(resp) => AllowedNoPatch(resp)

\* Scenario E: floors 1 and 1, no ready Spot replica, one ready OnDemand
\* replica, and a pod on an OnDemand node is deleted
ScenarioE ==
    /\ DeleteOnOndemand
    /\ app.SpotMinPodNum = 1
    /\ app.OnDemandMinPodNum = 1
    /\ ReadyCount(spotKey) = 0
    /\ ReadyCount(ondemandKey) = 1

\* C8 as stated: in Scenario E the deletion is rejected.
C8_ScenarioERejected == ScenarioE => Rejected(resp)

\* C8 (amended): in Scenario E the deletion is allowed with no patch; the
\* Spot count is below its floor, so the OnDemand replicas are not counted
\* (the node lookup and at most the two reads of the Spot count happen).
C8_ScenarioEAllowed ==
    ScenarioE => AllowedNoPatch(resp) /\ Len(resp.reads) <= 3

\* C8 witness: Scenario E happened with a Spot node in the cluster and the
\* deleted pod being the counted OnDemand replica
C8_Witness ==
    /\ ScenarioE
    /\ DeletedPodCounted
    /\ "spot-1" \in DOMAIN apiserver.nodes
    /\ AllowedNoPatch(resp)

HasPatchPath(path) == \E i \in 1..Len(resp.patch) : resp.patch[i].path = path

\* C9 as stated: a pod created in a controlled namespace while the ready
\* OnDemand count of its selector is below the floor gets a patch with the
\* OnDemand node selector and a self-anti-affinity term.
C9_CreateBelowFloorSpreads ==
    (CreatePod /\ ReadyCount(ondemandKey) < app.OnDemandMinPodNum)
    => /\ AllowedWithPatch(resp)
       /\ \E i \in 1..Len(resp.patch) :
            /\ resp.patch[i].path = "/spec/nodeSelector"
            /\ resp.patch[i].value = [k \in {capacityKey} |-> ondemandKey]
       /\ HasPatchPath("/spec/affinity")

\* C9 (amended): such a pod gets a patch of exactly one entry, which replaces
\* the pod's node selector by the OnDemand capacity class; the patch carries
\* no affinity.
C9_CreateBelowFloorSelectsOndemand ==
    (CreatePod /\ ReadyCount(ondemandKey) < app.OnDemandMinPodNum)
    => /\ AllowedWithPatch(resp)
       /\ Len(resp.patch) = 1
       /\ resp.patch[1] =
            JSONPatchEntry("/spec/nodeSelector", [k \in {capacityKey} |-> ondemandKey])
       /\ ~HasPatchPath("/spec/affinity")

\* C9 witness: a pod was created with every read succeeding while its
\* selector has a ready replica on Spot and none on OnDemand, and was patched
C9_Witness ==
    /\ CreatePod
    /\ ReadsSucceeded(resp)
    /\ Len(resp.reads) = 2
    /\ ReadyCount(ondemandKey) = 0
    /\ ReadyCount(spotKey) = 1
    /\ AllowedWithPatch(resp)

\* C10: a pod created while the ready OnDemand count of its selector, as the
\* handler read it, is at or above the OnDemand floor is allowed with no
\* patch; a count equal to the floor is such a case.
C10_CreateAtFloorSkips ==
    ( /\ CreatePod
      /\ ReadsSucceeded(resp)
      /\ ReadyCount(ondemandKey) >= app.OnDemandMinPodNum )
    => AllowedNoPatch(resp)

\* C10 witness: a pod was created while the count equals the floor, and was
\* allowed with no patch
C10_Witness ==
    /\ CreatePod
    /\ ReadsSucceeded(resp)
    /\ ReadyCount(ondemandKey) = app.OnDemandMinPodNum
    /\ AllowedNoPatch(resp)

-----------------------------------------------------------------------------
(* Properties of pod creates in a changing cluster (SpecRace) *)

\* the count of ready OnDemand replicas in the store the request read
SnapshotReplicas ==
    {i \in 1..Len((IF synced THEN cache ELSE apiserver).pods) :
       /\ (IF synced THEN cache ELSE apiserver).pods[i].namespace = req.namespace
       /\ SelectorMatches(req.labels, (IF synced THEN cache ELSE apiserver).pods[i].labels)
       /\ PodReady((IF synced THEN cache ELSE apiserver).pods[i])
       /\ (IF synced THEN cache ELSE apiserver).pods[i].nodeName \in
            {n \in DOMAIN (IF synced THEN cache ELSE apiserver).nodes :
               /\ capacityKey \in DOMAIN (IF synced THEN cache ELSE apiserver).nodes[n]
               /\ (IF synced THEN cache ELSE apiserver).nodes[n][capacityKey] = ondemandKey}}
SnapshotCount == Cardinality(SnapshotReplicas)

\* C11 as stated: a pod create is admitted without the OnDemand node selector
\* only if, at the moment of admission, at least floor replicas of its
\* selector are ready on OnDemand nodes in the cluster itself.
C11_FloorFilledInCluster ==
    (CreatePod /\ AllowedNoPatch(resp))
    => ReadyCount(ondemandKey) >= app.OnDemandMinPodNum

\* C11 (amended): a pod create is admitted without the OnDemand node selector
\* only if at least floor replicas of its selector are ready on OnDemand
\* nodes in the snapshot the request read: the listers' stores once the
\* informers have synced, which may lag behind the cluster, the API server
\* before.
C11_FloorFilledInSnapshot ==
    (CreatePod /\ AllowedNoPatch(resp))
    => SnapshotCount >= app.OnDemandMinPodNum

\* C11 witness: a pod create was admitted unpatched from a store that still
\* holds a ready OnDemand replica the cluster no longer has
C11_Witness ==
    /\ CreatePod
    /\ AllowedNoPatch(resp)
    /\ synced
    /\ SnapshotCount >= app.OnDemandMinPodNum
    /\ ReadyCount(ondemandKey) = 0

\* the store the request read
Snapshot == IF synced THEN cache ELSE apiserver

\* the pod's Ready condition is true or has the completed-success reason
ReadyOrCompleted(pod) ==
    \E ci \in 1..Len(pod.conditions) :
       /\ pod.conditions[ci].Type = "Ready"
       /\ pod.conditions[ci].Status = "True" \/ pod.conditions[ci].Reason = "PodCompleted"

\* the node of the snapshot carries the capacity label with this value
SnapshotNodeHasCapacity(name, capacity) ==
    /\ name \in DOMAIN Snapshot.nodes
    /\ capacityKey \in DOMAIN Snapshot.nodes[name]
    /\ Snapshot.nodes[name][capacityKey] = capacity

\* the replicas of the request's pod in the snapshot
Replicas ==
    {i \in 1..Len(Snapshot.pods) :
       /\ Snapshot.pods[i].namespace = req.namespace
       /\ SelectorMatches(req.labels, Snapshot.pods[i].labels)}

\* the replicas the claim counts for a class
CountedFor(capacity) ==
    {i \in Replicas :
       /\ SnapshotNodeHasCapacity(Snapshot.pods[i].nodeName, capacity)
       /\ ReadyOrCompleted(Snapshot.pods[i])}

\* C12: for the pod of a handled request and each capacity class, the count
\* the handler computes is the number of the pod's replicas that are bound to
\* a node carrying the class's label and are ready (Ready true, or Ready with
\* reason PodCompleted); unbound pods, pods that are not ready and pods on
\* unlabelled nodes are in neither count.  A create whose reads succeed is
\* left unpatched exactly when that OnDemand count reaches the floor.
C12_CountRule ==
    /\ (Handled /\ IsPod(req))
       => \A capacity \in {spotKey, ondemandKey} :
            podExistAndReadyOnNodeCapacityNum(synced, apiserver, cache, capacity, req,
                                              FALSE, FALSE).num
              = Cardinality(CountedFor(capacity))
    /\ (CreatePod /\ ReadsSucceeded(resp))
       => (AllowedNoPatch(resp) <=>
             Cardinality(CountedFor(ondemandKey)) >= app.OnDemandMinPodNum)

\* C12 witness: a pod was created with every read succeeding while its two
\* replicas were one ready on the unlabelled node and one not ready on the
\* OnDemand node; neither was counted, so the pod was patched
C12_Witness ==
    /\ CreatePod
    /\ ReadsSucceeded(resp)
    /\ Len(resp.reads) = 2
    /\ \E i \in Replicas :
         Snapshot.pods[i].nodeName = "plain-1" /\ ReadyOrCompleted(Snapshot.pods[i])
    /\ \E i \in Replicas :
         Snapshot.pods[i].nodeName = "od-1" /\ ~ReadyOrCompleted(Snapshot.pods[i])
    /\ CountedFor(ondemandKey) = {}
    /\ CountedFor(spotKey) = {}
    /\ AllowedWithPatch(resp)

-----------------------------------------------------------------------------
(* Further properties of server.go's handler (SpecServer) *)

\* no node of the cluster carries the Spot capacity label
NoSpotNode == \A n \in DOMAIN apiserver.nodes : ~NodeHasCapacity(n, spotKey)

\* C13: while no node carries the Spot label, the Spot count is 0 and the
\* counting raises nothing: the node list succeeds and the pods are not
\* listed.  The check 'Spot count >= Spot floor' is then false for the
\* positive floor, so no delete is vetoed, whatever the OnDemand count is.
C13_AbsentClassCountsZero ==
    /\ (Handled /\ IsPod(req) /\ NoSpotNode)
       => /\ podExistAndReadyOnNodeCapacityNum(synced, apiserver, cache, spotKey, req,
                                               FALSE, FALSE).num = 0
          /\ ~SpotFloorMet(app, 0)
          /\ req.operation = "DELETE" => AllowedNoPatch(resp)
    /\ (DeleteOnOndemand /\ NoSpotNode)
       => /\ Len(resp.reads) = 2
          /\ resp.reads[2] = Read("ListNode", ReadMode(synced), TRUE)

\* C13 witness: without a Spot node, a pod on the OnDemand node was deleted
\* while the ready OnDemand count was below its floor and the selector had a
\* ready replica bound to the missing Spot node; the deletion was allowed
C13_Witness ==
    /\ DeleteOnOndemand
    /\ NoSpotNode
    /\ ReadyCount(ondemandKey) < app.OnDemandMinPodNum
    /\ \E i \in 1..Len(apiserver.pods) :
         /\ apiserver.pods[i].nodeName = "spot-1"
         /\ SelectorMatches(req.labels, apiserver.pods[i].labels)
         /\ PodReady(apiserver.pods[i])
    /\ AllowedNoPatch(resp)

KnownKinds == {"Deployment", "StatefulSet", "Pod"}

\* C14: a request of a kind other than Deployment, StatefulSet and Pod gets a
\* response that is allowed, has no patch and carries the request's UID.
C14_UnknownKindAllowed ==
    (Handled /\ req.body = "ok" /\ req.kind \notin KnownKinds)
    => AllowedNoPatch(resp) /\ resp.uid = req.uid

\* C15: a request whose envelope, or whose object the handler decodes, does
\* not decode is rejected with a message; nothing is read from the cluster,
\* no patch is produced and no allowed verdict is returned.
C15_DecodeErrorRejected ==
    (Handled /\ req.body # "ok")
    => /\ Rejected(resp)
       /\ resp.err # ""
       /\ resp.reads = <<>>
       /\ resp.patch = <<>>
       /\ ~resp.allowed

\* C15 witness: the delete of a pod whose object does not decode was rejected
C15_Witness ==
    /\ Handled
    /\ req.body = "badObject"
    /\ req.kind = "Pod"
    /\ req.operation = "DELETE"
    /\ Rejected(resp)
    /\ resp.reads = <<>>

\* C16: every response to a decodable request of a known kind, all reads
\* having succeeded, is an AdmissionReview carrying the request's UID; a
\* rejection (here the deletion veto) is such an envelope with
\* allowed = false and a message.
C16_ResponseCarriesUID ==
    ( /\ Handled
      /\ req.body = "ok"
      /\ req.kind \in KnownKinds
      /\ ReadsSucceeded(resp)
      /\ resp.envelope # "none" )
    => /\ resp.envelope = "AdmissionReview"
       /\ resp.uid = req.uid
       /\ ~resp.allowed => resp.err # ""

\* the handler's read of this kind failed
ReadFailed(op) ==
    \E i \in 1..Len(resp.reads) : resp.reads[i].op = op /\ ~resp.reads[i].ok

\* C17: a failed read is never by itself the reason of a rejection; a
\* Deployment or StatefulSet whose namespace lookup failed is still answered
\* with an allowed verdict (no other rule rejects a template here).
C17_FailedReadNotRejected ==
    (Handled /\ IsTemplate(req) /\ ReadFailed("GetNamespace"))
    => resp.envelope = "AdmissionReview" /\ resp.allowed

-----------------------------------------------------------------------------
(* Properties of FillAffinity (SpecAgain) *)

\* every block and every preference list of an affinity is non-nil
Filled(affinity) ==
    /\ ~affinity.nil
    /\ ~affinity.NodeAffinity.nil
    /\ ~affinity.NodeAffinity.Preferred.nil
    /\ ~affinity.PodAntiAffinity.nil
    /\ ~affinity.PodAntiAffinity.Preferred.nil

\* C21: for every shape of the template's affinity (none, no node-affinity
\* block, no anti-affinity block, blocks with nil lists, blocks with entries)
\* FillAffinity returns an affinity whose two blocks and two preference
\* lists are non-nil and hold exactly the entries the input had, in order;
\* the affinity of the patch the handler builds on it is filled as well.
C21_FillAffinityTotal ==
    (Handled /\ IsTemplate(req))
    => /\ Filled(FillAffinity(req.affinity))
       /\ NodeTermsOf(FillAffinity(req.affinity)) = NodeTermsOf(req.affinity)
       /\ AntiTermsOf(FillAffinity(req.affinity)) = AntiTermsOf(req.affinity)
       /\ AllowedWithPatch(resp)
          => /\ Filled(resp.patch[1].value)
             /\ Extends(NodeTermsOf(resp.patch[1].value), NodeTermsOf(req.affinity),
                        AddedNodeTerms(resp.patch[1].value))
             /\ Extends(AntiTermsOf(resp.patch[1].value), AntiTermsOf(req.affinity),
                        <<AddedAntiTerm(req)>>)

\* a template with no anti-affinity block whose node-affinity list holds an
\* entry was patched
C21_Witness ==
    /\ Handled
    /\ IsTemplate(req)
    /\ ~req.affinity.nil
    /\ req.affinity.PodAntiAffinity.nil
    /\ NodeTermsOf(req.affinity) = <<PreferredSchedulingTerm(3, "zone-a")>>
    /\ AllowedWithPatch(resp)
    /\ Len(AntiTermsOf(resp.patch[1].value)) = 1

-----------------------------------------------------------------------------
(* Properties of the dual-mode reads (SpecServer) *)

ReadOps == {"GetNamespace", "GetNode", "ListNode", "ListPod"}
OpsRead(r) == {r.reads[i].op : i \in 1..Len(r.reads)}

\* C22: every read a handler issues (get namespace, get node, list nodes,
\* list pods) is a direct query when the readiness flag is false and is
\* served from the cache when the flag is true; with the flag true no read
\* is a direct query.
C22_ReadsFollowFlag ==
    Handled
    => /\ OpsRead(resp) \subseteq ReadOps
       /\ \A i \in 1..Len(resp.reads) :
            /\ ~synced => resp.reads[i].mode = "direct"
            /\ synced => resp.reads[i].mode = "cache"

\* with the flag true a pod delete read its node, the nodes of both classes
\* and the pods on them
C22_Witness ==
    /\ Handled
    /\ synced
    /\ OpsRead(resp) = {"GetNode", "ListNode", "ListPod"}
    /\ Len(resp.reads) = 5
    /\ \A i \in 1..Len(resp.reads) : resp.reads[i].mode = "cache"

-----------------------------------------------------------------------------
(* The informer goroutine and a handler's read, step by step.               *)
(* SingleClusterManager.StartInformer write-locks syncRWMutex, waits for    *)
(* the caches and sets the flag; IsSynced read-locks the same mutex.        *)

\* requests whose handling issues at most one read: templates (the
\* namespace), deletes of pods that are not on the OnDemand node (the node),
\* and pod updates (none)
SyncRequests ==
    { r \in ServerRequests :
        /\ r.body = "ok"
        /\ \/ r.kind \in {"Deployment", "StatefulSet"} /\ r.affinity = NilV
           \/ r.kind = "Pod" /\ r.operation = "DELETE" /\ r.nodeName # "od-1"
           \/ r.kind = "Pod" /\ r.operation = "UPDATE" /\ r.nodeName = "" }

\* the handler reaches a read helper of part_005 for request r
NeedsRead(a, api, c, r) == ServerHandle(a, FALSE, api, c, r, {}).reads # <<>>

\* server.go HandleMutate up to its first read: the request is decoded and
\* the switch labels are tested; without a read the response is written
Receive ==
    /\ pc = "idle"
    /\ informer.stopCh = "open"
    /\ \E r \in SyncRequests :
         /\ NumLabels(r.labels) + NumNamespaceLabels(apiserver) <= MaxLabels
         /\ req' = r
         /\ IF NeedsRead(app, apiserver, cache, r)
            THEN resp' = Idle /\ pc' = "isSynced"
            ELSE /\ resp' = ServerHandle(app, synced, apiserver, cache, r, {})
                 /\ pc' = "done"
    /\ UNCHANGED <<app, informer, synced, apiserver, cache>>

\* IsSynced (lines 76-80): RLock is granted when the write lock is not held,
\* and the flag is returned
IsSyncedReturns ==
    /\ pc = "isSynced"
    /\ informer.goroutine # "waiting"
    /\ pc' = IF synced THEN "readCache" ELSE "readDirect"
    /\ UNCHANGED <<app, informer, synced, apiserver, cache, req, resp>>

\* the lister answers from its store and the handler writes its response
CacheReadReturns ==
    /\ pc = "readCache"
    /\ resp' = ServerHandle(app, TRUE, apiserver, cache, req, {})
    /\ pc' = "done"
    /\ UNCHANGED <<app, informer, synced, apiserver, cache, req>>

\* the direct query returns, with the object or with an error, and the
\* handler writes its response
DirectQueryReturns ==
    /\ pc = "readDirect"
    /\ \E f \in FailChoices :
         /\ f \subseteq {"GetNamespace", "GetNode"}
         /\ resp' = ServerHandle(app, FALSE, apiserver, cache, req, f)
    /\ pc' = "done"
    /\ UNCHANGED <<app, informer, synced, apiserver, cache, req>>

\* StartInformer lines 68-71: factory.Start, then syncRWMutex.Lock()
LockForSync ==
    /\ informer.goroutine = "spawned"
    /\ informer' = [informer EXCEPT !.goroutine = "waiting"]
    /\ UNCHANGED <<app, synced, apiserver, cache, req, resp, pc>>

\* lines 72-74: WaitForCacheSync returns because every informer has synced;
\* the flag is set and the deferred Unlock runs
WaitForCacheSyncSynced ==
    /\ informer.goroutine = "waiting"
    /\ informer.stopCh = "open"
    /\ cache' = apiserver
    /\ synced' = TRUE
    /\ informer' = InformerState("returned", informer.stopCh, TRUE)
    /\ UNCHANGED <<app, apiserver, req, resp, pc>>

\* lines 72-74: WaitForCacheSync returns because stopCh was closed; its
\* result is dropped, the flag is set and the deferred Unlock runs
WaitForCacheSyncStopped ==
    /\ informer.goroutine = "waiting"
    /\ informer.stopCh = "closed"
    /\ synced' = TRUE
    /\ informer' = [informer EXCEPT !.goroutine = "returned"]
    /\ UNCHANGED <<app, apiserver, cache, req, resp, pc>>

\* mutant: stopping the informers also clears the flag
StopInformer_ClearsFlag ==
    /\ informer.stopCh = "open"
    /\ informer' = [informer EXCEPT !.stopCh = "closed"]
    /\ synced' = FALSE
    /\ UNCHANGED <<app, apiserver, cache, req, resp, pc>>

\* App.StopInformer, deferred by StartServer: ListenAndServeTLS has returned
StopInformer ==
    /\ informer.stopCh = "open"
    /\ informer' = [informer EXCEPT !.stopCh = "closed"]
    /\ UNCHANGED <<app, synced, apiserver, cache, req, resp, pc>>

InitSync ==
    /\ \E env \in ServerEnvs : app = StartServer(env)
    /\ synced = FALSE
    /\ informer = InformerState("spawned", "open", FALSE)
    /\ \E l \in LabelMaps({mixSchedulerKey}, MaxLabels), withSpot \in BOOLEAN :
         apiserver = Cluster(l, withSpot, <<>>)
    /\ cache = EmptyCluster(NoLabels)
    /\ req = Idle
    /\ resp = Idle
    /\ pc = "idle"

NextSync ==
    \/ Receive
    \/ IsSyncedReturns
    \/ CacheReadReturns
    \/ DirectQueryReturns
    \/ Respond
    \/ LockForSync
    \/ WaitForCacheSyncSynced
    \/ WaitForCacheSyncStopped
    \/ StopInformer

SpecSync == InitSync /\ [][NextSync]_vars

\* the handler's goroutine and the informer's goroutine are scheduled, a
\* free lock is granted, and a read that was issued returns; nothing makes
\* the initial sync complete or the server stop
SpecSyncFair ==
    /\ SpecSync
    /\ WF_pc(IsSyncedReturns)
    /\ WF_pc(CacheReadReturns)
    /\ WF_pc(DirectQueryReturns)
    /\ WF_pc(Respond)
    /\ WF_informer(LockForSync)

-----------------------------------------------------------------------------
(* Properties of the readiness flag (SpecSync) *)

\* C23: the readiness flag starts false and never goes from true to false,
\* and a call of IsSynced returns the flag: it returns false only while the
\* flag is false, so none returns false after one returned true.
C23_FlagOneShot ==
    /\ ~synced
    /\ [][/\ synced => synced'
          /\ (pc = "isSynced" /\ pc' # "isSynced")
             => /\ pc' = "readDirect" => ~synced'
                /\ pc' = "readCache" => synced']_vars

\* IsSynced returned true after the initial sync completed
C23_Witness ==
    /\ synced
    /\ informer.hasSynced
    /\ pc = "readCache"

\* C24: the readiness flag is true only if the initial sync of the caches
\* completed.
C24_FlagOnlyAfterSync == synced => informer.hasSynced

\* C25: while the initial sync is in progress and the flag is false, a
\* handler's call of IsSynced returns without waiting.
C25_ReadinessCheckNeverWaits ==
    (pc = "isSynced" /\ ~synced) => ENABLED IsSyncedReturns

\* C30: every admission request that reached a read eventually has its
\* response written, also when the initial sync never completes.
C30_EveryRequestAnswered == (pc = "isSynced") ~> (pc = "done")

-----------------------------------------------------------------------------
(* Properties of server.go's template patch (SpecServer) *)

\* the handler went past both switch checks and the namespace lookup
ReachedTemplatePatch ==
    /\ Handled
    /\ IsTemplate(req)
    /\ ~AllowedNoPatch(resp)
    /\ ~Rejected(resp)

\* the anti-affinity term server.go builds from the template's own selector
ServerSelfTerm(r) ==
    [Weight |-> 100, TopologyKey |-> "kubernetes.io/hostname", LabelSelector |-> r.selector]

\* C26: for a template that already carries affinity rules, with or without
\* an anti-affinity block, server.go's handler answers with a patch whose
\* anti-affinity list holds every term the template had, followed by the new
\* self-spreading term.
C26_TemplateAntiAffinityAppended ==
    (ReachedTemplatePatch /\ ~req.affinity.nil)
    => /\ AllowedWithPatch(resp)
       /\ Extends(AntiTermsOf(resp.patch[1].value), AntiTermsOf(req.affinity),
                  <<ServerSelfTerm(req)>>)

-----------------------------------------------------------------------------
(* Properties of the state the requests share (SpecApp) *)

-----------------------------------------------------------------------------
(* Properties of pod deletes and updates (SpecServer) *)

\* C28: no delete is answered with a patch; the delete of a pod that is on
\* a Spot node, on a node without the capacity label, on no node, or on a
\* node whose lookup fails is allowed with no patch after the node lookup
\* alone, with no count of replicas; a pod update that is not skipped before
\* is allowed with no patch and reads nothing.
C28_DeleteAndUpdateNeverPatched ==
    Handled
    => /\ (req.body # "badEnvelope" /\ req.operation = "DELETE") => resp.patch = <<>>
       /\ ( /\ IsPod(req)
            /\ req.operation = "DELETE"
            /\ ~NodeHasCapacity(req.nodeName, ondemandKey) \/ ReadFailed("GetNode") )
          => /\ AllowedNoPatch(resp)
             /\ OpsRead(resp) \subseteq {"GetNode"}
       /\ (IsPod(req) /\ req.operation = "UPDATE")
          => AllowedNoPatch(resp) /\ resp.reads = <<>>

\* the delete of a pod on the OnDemand node whose node lookup failed was
\* allowed after that one read
C28_Witness ==
    /\ Handled
    /\ IsPod(req)
    /\ req.operation = "DELETE"
    /\ NodeHasCapacity(req.nodeName, ondemandKey)
    /\ ReadFailed("GetNode")
    /\ Len(resp.reads) = 1
    /\ AllowedNoPatch(resp)

-----------------------------------------------------------------------------
(* Properties of the pod-create patch (SpecRace) *)

\* C29: a pod created while the count the handler read is below the
\* OnDemand floor is patched, and the patch of a pod create is a single
\* replace of /spec/nodeSelector whose value is the map with the one entry
\* capacity label -> on-demand: no entry the pod's node selector had under
\* another key is in it.
C29_PatchReplacesSelector ==
    /\ (CreatePod /\ ReadsSucceeded(resp) /\ SnapshotCount < app.OnDemandMinPodNum)
       => AllowedWithPatch(resp)
    /\ (CreatePod /\ AllowedWithPatch(resp))
       => /\ Len(resp.patch) = 1
          /\ resp.patch[1].op = "replace"
          /\ resp.patch[1].path = "/spec/nodeSelector"
          /\ DOMAIN resp.patch[1].value = {capacityKey}
          /\ resp.patch[1].value[capacityKey] = ondemandKey
          /\ ~req.nodeSelector.nil
             => \A k \in DOMAIN req.nodeSelector.map \ {capacityKey} :
                  k \notin DOMAIN resp.patch[1].value

\* a pod whose node selector holds disk = ssd was created below the floor
\* and patched
C29_Witness ==
    /\ CreatePod
    /\ ~req.nodeSelector.nil
    /\ "disk" \in DOMAIN req.nodeSelector.map
    /\ SnapshotCount < app.OnDemandMinPodNum
    /\ AllowedWithPatch(resp)

====
